---- MODULE Spec2Model ----
(***************************************************************************)
(* Embedding-provider layer of paw: the provider router installed by       *)
(* paw_embedding_hook.install_hook and the remote OpenAI-compatible client *)
(* of palace_openai_patch (get_embedding_openai, is_openai_available).     *)
(*                                                                         *)
(* Spec is the host seen as one thread: it installs the hook, changes the  *)
(* configuration between calls, and issues one call at a time.  A call to  *)
(* the remote client runs through its retry loop step by step: one POST    *)
(* per Attempt step, one time.sleep per Sleep step.                        *)
(***************************************************************************)
EXTENDS Integers, Sequences, FiniteSets, TLC

VARIABLES
    config,                   \* the settings store read by load_config()
    emb_module,               \* memory_palace.embeddings: its three bindings
    _patched,                 \* paw_embedding_hook._patched
    _original_get_embedding,  \* paw_embedding_hook._original_get_embedding
    installs,                 \* install_hook() calls made so far
    op,                       \* entry point the host called last
    called,                   \* backend invocation made by that entry point
    ret,                      \* what the entry point returned to the host
    prevRoute,                \* backend the previous routed call went to
    pc,                       \* position of the remote get_embedding call
    text,                     \* its text argument (after truncation)
    model,                    \* its model (override or configured)
    cfg,                      \* its _get_openai_config() snapshot
    attempt,                  \* loop variable of its retry loop
    responses,                \* outcomes of its POSTs, in order
    delays,                   \* arguments of its time.sleep calls, in order
    last_error,               \* its last_error
    requests,                 \* HTTP requests sent by the call in progress
    installers,               \* threads inside install_hook, line by line
    calls                     \* get_embedding_openai calls run by threads

vars == <<config, emb_module, _patched, _original_get_embedding, installs,
          op, called, ret, prevRoute, pc, text, model, cfg, attempt,
          responses, delays, last_error, requests, installers, calls>>

hookVars == <<emb_module, _patched, _original_get_embedding, installs>>
clientVars == <<pc, text, model, cfg, attempt, responses, delays,
                last_error, requests>>
concVars == <<installers, calls>>

(***************************************************************************)
(* Bounds and program constants                                            *)
(***************************************************************************)
MaxInstalls == 3

DEFAULT_MAX_EMBEDDING_CHARS == 8000
EMBEDDING_MAX_RETRIES == 3
EMBEDDING_RETRY_BASE_DELAY == 1

None == "None"
NoText == <<"None">>          \* None where a text may stand
NoFn == -1                    \* _original_get_embedding = None
LocalFn == 0                  \* a function of the local backend
Unset == "unset"              \* key missing from the settings store
DefaultModel == "text-embedding-3-small"
DefaultProvider == "ollama"

(***************************************************************************)
(* The settings store.  A URL is a sequence of tokens.                     *)
(***************************************************************************)
OpenAIUrl == <<"https://api.openai.com", "/v1">>
AzureUrl == <<"https://r.openai.azure.com", "/openai/deployments/d",
              "/embeddings", "?", "api-version=", "V1">>
AzureHosts == {"https://r.openai.azure.com",
               "https://r.cognitiveservices.azure.com"}

Providers == {Unset, "ollama", "openai", "lmstudio"}
ApiKeys == {Unset, "", "sk"}
Urls == {OpenAIUrl, AzureUrl}
Models == {Unset, "m1"}
Configs == [embedding_provider : Providers, openai_api_key : ApiKeys,
            openai_base_url : Urls, embedding_model : Models]

\* a text is a sequence of characters
Hello == <<"h", "e", "l", "l", "o">>
Texts == {<<>>, <<" ">>, Hello}
ModelArgs == {None, "m2"}
LocalVectors == {"absent", "vecL"}
RemoteVector == "vecR"

Whitespace == {" ", "\n", "\t"}

RECURSIVE Strip(_)
\* text.strip()
Strip(t) ==
    IF t = <<>> THEN t
    ELSE IF t[1] \in Whitespace THEN Strip(SubSeq(t, 2, Len(t)))
    ELSE IF t[Len(t)] \in Whitespace THEN Strip(SubSeq(t, 1, Len(t) - 1))
    ELSE t

\* marker = "\n[TRUNCATED FOR EMBEDDING]"
Marker ==
    <<"\n", "[", "T", "R", "U", "N", "C", "A", "T", "E", "D", " ", "F", "O",
      "R", " ", "E", "M", "B", "E", "D", "D", "I", "N", "G", "]">>

\* text[:n] for n >= 0
Prefix(t, n) == SubSeq(t, 1, IF n < Len(t) THEN n ELSE Len(t))

\* _truncate_for_embedding(text, max_chars)
TruncateKeepingBudget(t, max_chars) ==
    IF Len(t) <= max_chars THEN t
    ELSE Prefix(t, max_chars) \o Marker
_truncate_for_embedding(t, max_chars) ==
    IF Len(t) <= max_chars THEN t
    ELSE Prefix(t, max_chars - Len(Marker)) \o Marker

\* config.get("embedding_provider", "ollama")
ProviderCached(c) ==
    IF prevRoute = "remote" THEN "openai"
    ELSE IF prevRoute = "local" THEN DefaultProvider
    ELSE IF c.embedding_provider = Unset THEN DefaultProvider
    ELSE c.embedding_provider
Provider(c) ==
    IF c.embedding_provider = Unset THEN DefaultProvider
    ELSE c.embedding_provider

\* config.get("embedding_model") or "text-embedding-3-small"
ModelOf(c) ==
    IF c.embedding_model = Unset THEN DefaultModel ELSE c.embedding_model

\* config.get("openai_api_key") or ""
ApiKeyOf(c) ==
    IF c.openai_api_key = Unset THEN "" ELSE c.openai_api_key

RECURSIVE RStripSlash(_)
\* raw.rstrip("/")
RStripSlash(u) ==
    IF Len(u) > 0 /\ u[Len(u)] = "/" THEN RStripSlash(SubSeq(u, 1, Len(u) - 1))
    ELSE u

\* re.sub(r'/embeddings(\?.*)?$', '', raw_url): cut at the leftmost
\* /embeddings that ends the URL or is followed by a query string
StripEmbeddings(u) ==
    LET hits == {i \in 1..Len(u) :
                    /\ u[i] = "/embeddings"
                    /\ (i = Len(u) \/ u[i + 1] = "?")}
    IN  IF hits = {} THEN u
        ELSE LET first == CHOOSE i \in hits : \A j \in hits : i <= j
             IN  SubSeq(u, 1, first - 1)

RECURSIVE UpToAmpersand(_)
\* [^&]+ : the tokens up to the next & or the end
UpToAmpersand(u) ==
    IF u = <<>> \/ u[1] = "&" THEN <<>>
    ELSE <<u[1]>> \o UpToAmpersand(SubSeq(u, 2, Len(u)))

\* re.search(r'api-version=([^&]+)', raw_url): group(1) of the leftmost
\* match, <<>> when there is none (api_version = None)
ApiVersionOf(u) ==
    LET hits == {i \in 1..Len(u) :
                    /\ u[i] = "api-version="
                    /\ i < Len(u)
                    /\ u[i + 1] # "&"}
    IN  IF hits = {} THEN <<>>
        ELSE LET first == CHOOSE i \in hits : \A j \in hits : i <= j
             IN  UpToAmpersand(SubSeq(u, first + 1, Len(u)))

\* _get_openai_config()
GetOpenAIConfig(c) ==
    LET raw_url == RStripSlash(c.openai_base_url)
    IN  [api_key |-> ApiKeyOf(c),
         base_url |-> StripEmbeddings(raw_url),
         model |-> ModelOf(c),
         api_version |-> ApiVersionOf(raw_url)]

\* "cognitiveservices.azure.com" in base_url or "openai.azure.com" in base_url
IsAzure(base_url) == \E i \in 1..Len(base_url) : base_url[i] \in AzureHosts

\* the authentication headers of a request: lines 92-99 and 192-196
AuthHeadersBoth(base_url) ==
    IF IsAzure(base_url) THEN {"api-key", "Authorization"}
    ELSE {"Authorization"}
AuthHeaders(base_url) ==
    IF IsAzure(base_url) THEN {"api-key"} ELSE {"Authorization"}

NoCall == [backend |-> "none", fn |-> "none", text |-> NoText, model |-> None,
           provider |-> None, out |-> None]
NoOp == [fn |-> "none", text |-> NoText, model |-> None]
NoCfg == [api_key |-> "", base_url |-> <<>>, model |-> None,
          api_version |-> <<>>]

Init ==
    /\ config \in Configs
    /\ emb_module = [get_embedding |-> LocalFn,
                     is_ollama_available |-> LocalFn,
                     get_active_embedding_model |-> LocalFn]
    /\ _patched = FALSE
    /\ _original_get_embedding = NoFn
    /\ installs = 0
    /\ op = NoOp
    /\ called = NoCall
    /\ ret = None
    /\ prevRoute = "none"
    /\ pc = "idle"
    /\ text = NoText
    /\ model = None
    /\ cfg = NoCfg
    /\ attempt = 0
    /\ responses = <<>>
    /\ delays = <<>>
    /\ last_error = None
    /\ requests = <<>>
    /\ installers = <<>>
    /\ calls = <<>>

\* the settings store is rewritten between two calls of the host
SetConfig ==
    /\ pc = "idle"
    /\ \E c \in Configs : c # config /\ config' = c
    /\ UNCHANGED <<concVars, hookVars, op, called, ret, prevRoute,
                   clientVars>>

(***************************************************************************)
(* paw_embedding_hook.install_hook.  A binding of emb_module is LocalFn    *)
(* (the local backend's function) or n > 0, the wrapper made by the n-th   *)
(* patch of that entry point; the wrappers of is_ollama_available and      *)
(* get_active_embedding_model close over the binding they replaced, the    *)
(* wrapper of get_embedding reads the module global.                       *)
(***************************************************************************)
\* if _patched: return
AlreadyPatchedUnguarded == FALSE
AlreadyPatched == _patched

install_hook ==
    /\ pc = "idle"
    /\ installs < MaxInstalls
    /\ installs' = installs + 1
    /\ IF AlreadyPatched
       THEN UNCHANGED <<emb_module, _patched, _original_get_embedding>>
       ELSE /\ _original_get_embedding' = emb_module.get_embedding
            /\ emb_module' =
                 [get_embedding |-> emb_module.get_embedding + 1,
                  is_ollama_available |-> emb_module.is_ollama_available + 1,
                  get_active_embedding_model |->
                      emb_module.get_active_embedding_model + 1]
            /\ _patched' = TRUE
    /\ UNCHANGED <<concVars, config, op, called, ret, prevRoute,
                   clientVars>>

(***************************************************************************)
(* The router: the host calls the three entry points of emb_module.        *)
(***************************************************************************)
\* provider == "openai"
IsOpenAINotOllama(provider) == provider # DefaultProvider
IsOpenAI(provider) == provider = "openai"

Call(backend, fn, t, m, provider, out) ==
    [backend |-> backend, fn |-> fn, text |-> t, model |-> m,
     provider |-> provider, out |-> out]

\* the return value of a routed call
PassBack(v) == v

\* emb_module.get_embedding(t, model=m) served by the local backend
LocalGetEmbedding(t, m, provider) ==
    /\ \E v \in LocalVectors :
          /\ called' = Call("local", "get_embedding", t, m, provider, v)
          /\ ret' = PassBack(v)
    /\ pc' = "done"
    /\ UNCHANGED <<text, model>>

\* patched_get_embedding calling get_embedding_openai(text, model=model)
RemoteGetEmbedding(t, m, provider) ==
    /\ called' = Call("remote", "get_embedding", t, m, provider, None)
    /\ ret' = None
    /\ pc' = "start"
    /\ text' = t
    /\ model' = m

\* a wrapper whose "original" is a wrapper again calls itself without end
Recursion(fn, t, m, provider) ==
    /\ called' = Call("none", fn, t, m, provider, None)
    /\ ret' = "RecursionError"
    /\ pc' = "done"
    /\ UNCHANGED <<text, model>>

get_embedding(t, m) ==
    /\ pc = "idle"
    /\ op' = [fn |-> "get_embedding", text |-> t, model |-> m]
    /\ IF emb_module.get_embedding = LocalFn
       THEN LocalGetEmbedding(t, m, None)
       ELSE LET provider == Provider(config)
            IN  IF IsOpenAI(provider) THEN RemoteGetEmbedding(t, m, provider)
                ELSE IF _original_get_embedding = LocalFn
                     THEN LocalGetEmbedding(t, m, provider)
                     ELSE Recursion("get_embedding", t, m, provider)
    /\ UNCHANGED <<concVars, config, hookVars, prevRoute, cfg, attempt,
                   responses, delays, last_error, requests>>

\* emb_module.is_ollama_available() served by the local backend
LocalIsAvailable(provider) ==
    /\ \E b \in BOOLEAN :
          /\ called' = Call("local", "is_available", NoText, None, provider, b)
          /\ ret' = PassBack(b)
    /\ UNCHANGED <<requests, responses>>

\* response.status_code in (200, 404)
StatusAvailable(status) == status \in {"200", "404"}

\* except requests.exceptions.RequestException: return False
OnRequestException == FALSE

\* if not cfg["api_key"]: return False
KeyMissingNever(c) == FALSE
KeyMissing(c) == c.api_key = ""

GetRequest(c) ==
    [method |-> "GET", path |-> "/models", auth |-> AuthHeaders(c.base_url),
     timeout |-> 10, azure |-> IsAzure(c.base_url), model |-> None,
     input |-> NoText, url |-> c.base_url \o <<"/models">>]

\* is_openai_available(), the GET answered by out
is_openai_available(out, provider) ==
    LET c == GetOpenAIConfig(config)
        b == IF KeyMissing(c) THEN FALSE
             ELSE IF out = "RequestException" THEN OnRequestException
             ELSE StatusAvailable(out)
    IN  /\ called' = Call("remote", "is_available", NoText, None, provider, b)
        /\ ret' = PassBack(b)
        /\ requests' = IF KeyMissing(c) THEN <<>> ELSE <<GetRequest(c)>>
        /\ responses' = IF KeyMissing(c) THEN <<>>
                        ELSE <<[kind |-> out, retry_after |-> "none"]>>

HealthOutcomes == {"200", "404", "500", "RequestException"}

is_ollama_available ==
    /\ pc = "idle"
    /\ op' = [fn |-> "is_available", text |-> NoText, model |-> None]
    /\ pc' = "done"
    /\ IF emb_module.is_ollama_available = LocalFn
       THEN LocalIsAvailable(None)
       ELSE LET provider == Provider(config)
            IN  IF IsOpenAI(provider)
                THEN \E out \in HealthOutcomes :
                        is_openai_available(out, provider)
                ELSE LocalIsAvailable(provider)
    /\ UNCHANGED <<concVars, config, hookVars, prevRoute, text, model, cfg,
                   attempt, delays, last_error>>

LocalModels == {"nomic-embed-text"}

\* emb_module.get_active_embedding_model() served by the local backend
LocalGetActive(provider) ==
    \E v \in LocalModels :
        /\ called' = Call("local", "get_active_model", NoText, None,
                          provider, v)
        /\ ret' = PassBack(v)

get_active_embedding_model ==
    /\ pc = "idle"
    /\ op' = [fn |-> "get_active_model", text |-> NoText, model |-> None]
    /\ pc' = "done"
    /\ IF emb_module.get_active_embedding_model = LocalFn
       THEN LocalGetActive(None)
       ELSE LET provider == Provider(config)
            IN  IF IsOpenAI(provider)
                THEN /\ called' = Call("remote", "get_active_model", NoText,
                                       None, provider, ModelOf(config))
                     /\ ret' = ModelOf(config)
                ELSE LocalGetActive(provider)
    /\ UNCHANGED <<concVars, config, hookVars, prevRoute, text, model, cfg,
                   attempt, responses, delays, last_error, requests>>

(***************************************************************************)
(* palace_openai_patch.get_embedding_openai                                *)
(***************************************************************************)
RetryAfterHeaders == {"none", "0", "7", "Wed, 21 Oct 2026 07:28:00 GMT"}

\* what one requests.post can end in
Outcomes ==
    {[kind |-> "429", retry_after |-> h] : h \in RetryAfterHeaders}
    \cup {[kind |-> k, retry_after |-> "none"] :
            k \in {"500", "200", "200-empty-data", "200-empty-embedding",
                   "200-not-json", "200-not-object", "ConnectionError",
                   "Timeout", "RequestException"}}

\* float(s) of a Retry-After header, where it does not raise ValueError
Float(s) ==
    IF s = "0" THEN 0 ELSE IF s = "7" THEN 7 ELSE -1
IsFloat(s) == s \in {"0", "7"}

\* if not text or not text.strip()
IsEmptyInputNoStrip(t) == t = <<>>
IsEmptyInput(t) == t = <<>> \/ Strip(t) = <<>>

\* EMBEDDING_RETRY_BASE_DELAY * (2 ** attempt)
BackoffLinear(a) == EMBEDDING_RETRY_BASE_DELAY * (2 * a)
Backoff(a) == EMBEDDING_RETRY_BASE_DELAY * (2 ^ a)

\* for attempt in range(EMBEDDING_MAX_RETRIES): is there a next iteration
HasNextOffByOne(a) == a < EMBEDDING_MAX_RETRIES
HasNext(a) == a + 1 < EMBEDDING_MAX_RETRIES

\* if attempt < EMBEDDING_MAX_RETRIES - 1: a backoff before the next attempt
BackoffDue(a) == a < EMBEDDING_MAX_RETRIES - 1

\* embeddings and len(embeddings) > 0 and embedding and len(embedding) > 0
HasEmbeddingAny200(out) ==
    out.kind \in {"200", "200-empty-data", "200-empty-embedding"}
HasEmbedding(out) == out.kind = "200"

\* lines 101-106: the request URL
Endpoint(c) ==
    LET endpoint == c.base_url \o <<"/embeddings">>
        sep == IF \E i \in 1..Len(endpoint) : endpoint[i] = "?"
               THEN "&" ELSE "?"
    IN  IF c.api_version = <<>> THEN endpoint
        ELSE endpoint \o <<sep, "api-version=">> \o c.api_version

\* timeout = 30 if attempt == 0 else 60
Timeout(a) == IF a = 0 THEN 30 ELSE 60

PostRequest ==
    [method |-> "POST", path |-> "/embeddings",
     auth |-> AuthHeaders(cfg.base_url), timeout |-> Timeout(attempt),
     azure |-> IsAzure(cfg.base_url), model |-> model, input |-> text,
     url |-> Endpoint(cfg)]

\* return v / an exception leaves the function
Finish(v) ==
    /\ pc' = "done"
    /\ called' = [called EXCEPT !.out = v]
    /\ ret' = PassBack(v)

\* the loop is over: logger.error(...); return None
Exhausted == Finish("absent")

\* time.sleep(d), then the next iteration of the loop
StartSleep(d) ==
    /\ pc' = "sleep"
    /\ delays' = Append(delays, d)
    /\ UNCHANGED <<called, ret>>

\* the end of one iteration that did not return: lines 174-177
EndOfIteration ==
    IF BackoffDue(attempt) THEN StartSleep(Backoff(attempt))
    ELSE /\ Exhausted
         /\ UNCHANGED delays

\* lines 78-108: validation, truncation, configuration, request building
Prologue ==
    /\ pc = "start"
    /\ IF IsEmptyInput(text)
       THEN /\ Finish("absent")
            /\ UNCHANGED <<text, model, cfg>>
       ELSE LET c == GetOpenAIConfig(config)
            IN  /\ text' = _truncate_for_embedding(
                             text, DEFAULT_MAX_EMBEDDING_CHARS)
                /\ cfg' = c
                /\ model' = IF model # None THEN model ELSE c.model
                /\ IF KeyMissing(c) THEN Finish("absent")
                   ELSE /\ pc' = "attempt"
                        /\ UNCHANGED <<called, ret>>
    /\ UNCHANGED <<concVars, config, hookVars, op, prevRoute, attempt,
                   responses, delays, last_error, requests>>

\* the except clause a failed request or a body that is no JSON ends in
ErrorsOf(kind) ==
    CASE kind = "ConnectionError" -> {"connection error"}
      [] kind = "Timeout" -> {"timeout"}
      [] kind = "RequestException" -> {"request failed"}
      [] kind = "200-not-json" -> {"request failed", "malformed response"}
      [] OTHER -> {}

\* one iteration of the loop: lines 111-172, the POST answered by out
Attempt(out) ==
    /\ pc = "attempt"
    /\ requests' = Append(requests, PostRequest)
    /\ responses' = Append(responses, out)
    /\ CASE out.kind = "429" /\ out.retry_after = "none" ->
              /\ StartSleep(Backoff(attempt))
              /\ UNCHANGED last_error
         [] out.kind = "429" /\ IsFloat(out.retry_after) ->
              /\ StartSleep(Float(out.retry_after))
              /\ UNCHANGED last_error
         [] out.kind = "429" /\ out.retry_after # "none"
                             /\ ~IsFloat(out.retry_after) ->
              /\ last_error' = "malformed response"
              /\ EndOfIteration
         [] out.kind = "500" ->
              /\ last_error' = "HTTP 500"
              /\ IF BackoffDue(attempt) THEN StartSleep(Backoff(attempt))
                 ELSE /\ Exhausted
                      /\ UNCHANGED delays
         [] HasEmbedding(out) ->
              /\ Finish(RemoteVector)
              /\ UNCHANGED <<last_error, delays>>
         [] ~HasEmbedding(out)
            /\ out.kind \in {"200", "200-empty-data", "200-empty-embedding"} ->
              /\ last_error' = "empty embedding in response"
              /\ EndOfIteration
         [] out.kind = "200-not-object" ->
              /\ Finish("AttributeError")
              /\ UNCHANGED <<last_error, delays>>
         [] OTHER ->
              /\ last_error' \in ErrorsOf(out.kind)
              /\ EndOfIteration
    /\ UNCHANGED <<concVars, config, hookVars, op, prevRoute, text, model,
                   cfg, attempt>>

\* time.sleep returns; the loop goes to its next iteration or ends
Sleep ==
    /\ pc = "sleep"
    /\ IF HasNext(attempt)
       THEN /\ attempt' = attempt + 1
            /\ pc' = "attempt"
            /\ UNCHANGED <<called, ret>>
       ELSE /\ Exhausted
            /\ UNCHANGED attempt
    /\ UNCHANGED <<concVars, config, hookVars, op, prevRoute, text, model, cfg,
                   responses, delays, last_error, requests>>

\* the entry point has returned; the host goes on
Return ==
    /\ pc = "done"
    /\ prevRoute' = called.backend
    /\ op' = NoOp
    /\ called' = NoCall
    /\ ret' = None
    /\ pc' = "idle"
    /\ text' = NoText
    /\ model' = None
    /\ cfg' = NoCfg
    /\ attempt' = 0
    /\ responses' = <<>>
    /\ delays' = <<>>
    /\ last_error' = None
    /\ requests' = <<>>
    /\ UNCHANGED <<concVars, config, hookVars>>

Next ==
    \/ SetConfig
    \/ install_hook
    \/ \E t \in Texts, m \in ModelArgs : get_embedding(t, m)
    \/ Prologue
    \/ \E out \in Outcomes : Attempt(out)
    \/ Sleep
    \/ is_ollama_available
    \/ get_active_embedding_model
    \/ Return

Spec == Init /\ [][Next]_vars

(***************************************************************************)
(* SpecTrunc: one call of get_embedding_openai, reached through the        *)
(* installed router in openai mode, for texts around the truncation        *)
(* budget.                                                                 *)
(***************************************************************************)
TruncSpan == 6

\* a text of n characters, a "b" at every p-th place
TextOf(n, p) == [i \in 1..n |-> IF i % p = 0 THEN "b" ELSE "a"]

TruncLengths ==
    {1, Len(Marker), Len(Marker) + 1}
    \cup ((DEFAULT_MAX_EMBEDDING_CHARS - TruncSpan)
            ..(DEFAULT_MAX_EMBEDDING_CHARS + TruncSpan))
    \cup {DEFAULT_MAX_EMBEDDING_CHARS + Len(Marker) + 1}

TruncInputs == {TextOf(n, p) : n \in TruncLengths, p \in {2, 3}}

TruncOutcomes ==
    {[kind |-> k, retry_after |-> "none"] : k \in {"200", "500", "Timeout"}}

RemoteConfig(url) ==
    [embedding_provider |-> "openai", openai_api_key |-> "sk",
     openai_base_url |-> url, embedding_model |-> Unset]

\* the state in which patched_get_embedding has just called
\* get_embedding_openai(t, model=None) under the settings c
Dispatched(t, c) ==
    /\ config = c
    /\ emb_module = [get_embedding |-> 1,
                     is_ollama_available |-> 1,
                     get_active_embedding_model |-> 1]
    /\ _patched = TRUE
    /\ _original_get_embedding = LocalFn
    /\ installs = 1
    /\ op = [fn |-> "get_embedding", text |-> t, model |-> None]
    /\ called = Call("remote", "get_embedding", t, None, "openai", None)
    /\ ret = None
    /\ prevRoute = "none"
    /\ pc = "start"
    /\ text = t
    /\ model = None
    /\ cfg = NoCfg
    /\ attempt = 0
    /\ responses = <<>>
    /\ delays = <<>>
    /\ last_error = None
    /\ requests = <<>>
    /\ installers = <<>>
    /\ calls = <<>>

InitTrunc == \E t \in TruncInputs : Dispatched(t, RemoteConfig(OpenAIUrl))

NextTrunc ==
    \/ Prologue
    \/ \E out \in TruncOutcomes : Attempt(out)
    \/ Sleep

SpecTrunc == InitTrunc /\ [][NextTrunc]_vars

(***************************************************************************)
(* SpecUrl: one call of get_embedding_openai, reached through the          *)
(* installed router in openai mode, for the forms of openai_base_url: a    *)
(* host, a path, then optionally /embeddings, a slash, a query string.     *)
(***************************************************************************)
UrlHosts == {<<"https://api.openai.com">>, <<"https://r.openai.azure.com">>}
UrlPaths == {<<>>, <<"/v1">>, <<"/openai/deployments/d">>}
UrlEmbeddings == {<<>>, <<"/embeddings">>}
UrlSlashes == {<<>>, <<"/">>}
UrlQueries ==
    {<<>>,
     <<"?", "k=v">>,
     <<"?", "api-version=", "V1">>,
     <<"?", "k=v", "&", "api-version=", "V1">>,
     <<"?", "api-version=", "V1", "&", "k=v">>}

UrlInputs ==
    {h \o p \o e \o sl \o q :
        h \in UrlHosts, p \in UrlPaths, e \in UrlEmbeddings,
        sl \in UrlSlashes, q \in UrlQueries}

UrlOutcomes ==
    {[kind |-> k, retry_after |-> "none"] : k \in {"200", "500"}}

InitUrl == \E u \in UrlInputs : Dispatched(Hello, RemoteConfig(u))

NextUrl ==
    \/ Prologue
    \/ \E out \in UrlOutcomes : Attempt(out)
    \/ Sleep

SpecUrl == InitUrl /\ [][NextUrl]_vars

(***************************************************************************)
(* SpecConc: get_embedding_openai called by several threads of the host,   *)
(* through the installed router in openai mode.  The variables op .. of    *)
(* the client hold the frame (arguments and locals) of the thread that is  *)
(* running; calls.frames holds the frames of the others, calls.cur the     *)
(* running thread.  The settings store is shared and may be rewritten at   *)
(* any time.                                                               *)
(***************************************************************************)
MaxCalls == 2
Threads == 1..MaxCalls

\* thread n embeds a text of its own
ConcText(n) == [i \in 1..(n + 1) |-> "a"]
ConcConfigs == {RemoteConfig(OpenAIUrl), RemoteConfig(AzureUrl)}
ConcOutcomes ==
    {[kind |-> k, retry_after |-> "none"] : k \in {"200", "500"}}

\* the frame of the running thread: arguments and locals of lines 64-110
Frame ==
    [op |-> op, called |-> called, ret |-> ret, pc |-> pc, text |-> text,
     model |-> model, cfg |-> cfg, attempt |-> attempt,
     responses |-> responses, delays |-> delays, last_error |-> last_error,
     requests |-> requests]

\* the frame of a thread that patched_get_embedding has just sent into
\* get_embedding_openai(t, model=None)
StartFrame(t) ==
    [op |-> [fn |-> "get_embedding", text |-> t, model |-> None],
     called |-> Call("remote", "get_embedding", t, None, "openai", None),
     ret |-> None, pc |-> "start", text |-> t, model |-> None, cfg |-> NoCfg,
     attempt |-> 0, responses |-> <<>>, delays |-> <<>>,
     last_error |-> None, requests |-> <<>>]

\* a thread goes on with its own frame
ResumeSharedAttempt(f) ==
    /\ op' = f.op
    /\ called' = f.called
    /\ ret' = f.ret
    /\ pc' = f.pc
    /\ text' = f.text
    /\ model' = f.model
    /\ cfg' = f.cfg
    /\ UNCHANGED attempt
    /\ responses' = f.responses
    /\ delays' = f.delays
    /\ last_error' = f.last_error
    /\ requests' = f.requests
Resume(f) ==
    /\ op' = f.op
    /\ called' = f.called
    /\ ret' = f.ret
    /\ pc' = f.pc
    /\ text' = f.text
    /\ model' = f.model
    /\ cfg' = f.cfg
    /\ attempt' = f.attempt
    /\ responses' = f.responses
    /\ delays' = f.delays
    /\ last_error' = f.last_error
    /\ requests' = f.requests

InitConc ==
    /\ config \in ConcConfigs
    /\ emb_module = [get_embedding |-> 1,
                     is_ollama_available |-> 1,
                     get_active_embedding_model |-> 1]
    /\ _patched = TRUE
    /\ _original_get_embedding = LocalFn
    /\ installs = 1
    /\ prevRoute = "none"
    /\ installers = <<>>
    /\ calls = [cur |-> 1,
                frames |-> [t \in Threads \ {1} |-> StartFrame(ConcText(t))]]
    /\ op = StartFrame(ConcText(1)).op
    /\ called = StartFrame(ConcText(1)).called
    /\ ret = None
    /\ pc = "start"
    /\ text = ConcText(1)
    /\ model = None
    /\ cfg = NoCfg
    /\ attempt = 0
    /\ responses = <<>>
    /\ delays = <<>>
    /\ last_error = None
    /\ requests = <<>>

\* the interpreter switches from the running thread to thread t
Switch(t) ==
    /\ t # calls.cur
    /\ calls.frames[t].pc # "done"
    /\ calls' = [cur |-> t,
                 frames |-> [u \in Threads \ {t} |->
                               IF u = calls.cur THEN Frame
                               ELSE calls.frames[u]]]
    /\ Resume(calls.frames[t])
    /\ UNCHANGED <<config, hookVars, prevRoute, installers>>

\* the settings store is rewritten while calls are in progress
ConcSetConfig ==
    /\ \E c \in ConcConfigs : c # config /\ config' = c
    /\ UNCHANGED <<concVars, hookVars, op, called, ret, prevRoute,
                   clientVars>>

NextConc ==
    \/ Prologue
    \/ \E out \in ConcOutcomes : Attempt(out)
    \/ Sleep
    \/ \E t \in Threads : Switch(t)
    \/ ConcSetConfig

SpecConc == InitConc /\ [][NextConc]_vars

(***************************************************************************)
(* SpecRace: install_hook called by several threads of the host, one      *)
(* statement at a time; installers[t] is the statement thread t is at.     *)
(* _patched, _original_get_embedding and the bindings of emb_module are    *)
(* module globals, shared by the threads.  The host calls get_embedding    *)
(* in local mode at any time.                                              *)
(***************************************************************************)
MaxInstallers == 2
Installers == 1..MaxInstallers

LocalConfigs ==
    {c \in Configs : /\ c.embedding_provider # "openai"
                     /\ c.openai_api_key = Unset
                     /\ c.embedding_model = Unset}

InitRace ==
    /\ config \in LocalConfigs
    /\ emb_module = [get_embedding |-> LocalFn,
                     is_ollama_available |-> LocalFn,
                     get_active_embedding_model |-> LocalFn]
    /\ _patched = FALSE
    /\ _original_get_embedding = NoFn
    /\ installs = 0
    /\ op = NoOp
    /\ called = NoCall
    /\ ret = None
    /\ prevRoute = "none"
    /\ pc = "idle"
    /\ text = NoText
    /\ model = None
    /\ cfg = NoCfg
    /\ attempt = 0
    /\ responses = <<>>
    /\ delays = <<>>
    /\ last_error = None
    /\ requests = <<>>
    /\ installers = [t \in Installers |-> "guard"]
    /\ calls = <<>>

\* thread t goes from statement from to statement to
Goto(t, from, to) ==
    /\ installers[t] = from
    /\ installers' = [installers EXCEPT ![t] = to]
    /\ UNCHANGED <<calls, config, op, called, ret, prevRoute, clientVars>>

\* line 32: if _patched: return
Guard(t) ==
    /\ Goto(t, "guard", IF AlreadyPatched THEN "done" ELSE "save")
    /\ installs' = installs + 1
    /\ UNCHANGED <<emb_module, _patched, _original_get_embedding>>

\* line 38: _original_get_embedding = emb_module.get_embedding
SaveOriginal(t) ==
    /\ Goto(t, "save", "patch")
    /\ _original_get_embedding' = emb_module.get_embedding
    /\ UNCHANGED <<emb_module, _patched, installs>>

\* line 54: emb_module.get_embedding = patched_get_embedding
PatchGetEmbedding(t) ==
    /\ Goto(t, "patch", "others")
    /\ emb_module' = [emb_module EXCEPT
                        !.get_embedding = emb_module.get_embedding + 1]
    /\ UNCHANGED <<_patched, _original_get_embedding, installs>>

\* lines 57-81: the wrappers of the other two entry points
PatchOthers(t) ==
    /\ Goto(t, "others", "set")
    /\ emb_module' =
         [emb_module EXCEPT
            !.is_ollama_available = emb_module.is_ollama_available + 1,
            !.get_active_embedding_model =
                emb_module.get_active_embedding_model + 1]
    /\ UNCHANGED <<_patched, _original_get_embedding, installs>>

\* line 83: _patched = True
SetPatched(t) ==
    /\ Goto(t, "set", "done")
    /\ _patched' = TRUE
    /\ UNCHANGED <<emb_module, _original_get_embedding, installs>>

NextRace ==
    \/ \E t \in Installers : Guard(t)
    \/ \E t \in Installers : SaveOriginal(t)
    \/ \E t \in Installers : PatchGetEmbedding(t)
    \/ \E t \in Installers : PatchOthers(t)
    \/ \E t \in Installers : SetPatched(t)
    \/ \E t \in Texts, m \in ModelArgs : get_embedding(t, m)
    \/ Return

SpecRace == InitRace /\ [][NextRace]_vars

(***************************************************************************)
(* Properties                                                              *)
(***************************************************************************)
Kinds(seq) == [i \in 1..Len(seq) |-> seq[i].kind]
Posts == Cardinality({i \in 1..Len(requests) : requests[i].method = "POST"})
Gets == Cardinality({i \in 1..Len(requests) : requests[i].method = "GET"})
InRemoteGetEmbedding ==
    op.fn = "get_embedding" /\ called.backend = "remote"
InRemoteIsAvailable ==
    op.fn = "is_available" /\ called.backend = "remote"
KeyConfigured == config.openai_api_key \notin {Unset, ""}
EmptyBodies == {"200-empty-data", "200-empty-embedding"}

\* C1: a call answered 429, 429, 200-with-vector returns the vector; a call
\* answered 500, 500, 500 returns absent after exactly 3 POSTs, having slept
\* exactly 1 s and then 2 s between them.
C1_RetrySequences ==
    (InRemoteGetEmbedding /\ pc = "done") =>
        /\ Kinds(responses) = <<"429", "429", "200">> => ret = RemoteVector
        /\ Kinds(responses) = <<"500", "500", "500">> =>
              /\ ret = "absent"
              /\ Posts = 3
              /\ delays = <<1, 2>>

C1_Witness ==
    /\ InRemoteGetEmbedding
    /\ pc = "done"
    /\ Kinds(responses) = <<"429", "429", "200">>
    /\ ret = RemoteVector

\* C2: whatever the outcomes, a call makes at most 3 POSTs, and every outcome,
\* a 429 included, uses up one iteration of the loop: the number of responses
\* received is the loop index (plus one once the response is in).
C2_AtMostThreeAttempts ==
    /\ Posts <= 3
    /\ InRemoteGetEmbedding =>
          /\ Posts = Len(responses)
          /\ pc = "attempt" => Len(responses) = attempt
          /\ pc = "sleep" => Len(responses) = attempt + 1

C2_Witness ==
    /\ InRemoteGetEmbedding
    /\ pc = "done"
    /\ Kinds(responses) = <<"429", "429", "429">>
    /\ Posts = 3

\* C3: a vector is returned only at the first attempt answered 200 with a
\* non-empty embedding, which is the last attempt and is followed by no wait;
\* a 200 with an empty data array or an empty embedding is not a success: the
\* call goes on to the next attempt if one remains and else returns absent.
C3_SuccessOnlyOnEmbedding ==
    InRemoteGetEmbedding =>
        LET n == Len(responses)
        IN  /\ (pc = "done" /\ ret = RemoteVector) =>
                  /\ n >= 1
                  /\ responses[n].kind = "200"
                  /\ Len(delays) = n - 1
            /\ \A i \in 1..n :
                  responses[i].kind = "200" =>
                      i = n /\ pc = "done" /\ ret = RemoteVector
            /\ (n >= 1 /\ responses[n].kind \in EmptyBodies) =>
                  /\ ret # RemoteVector
                  /\ n < 3 => pc \in {"sleep", "attempt"}
                  /\ n = 3 => pc = "done" /\ ret = "absent"

C3_Witness ==
    /\ InRemoteGetEmbedding
    /\ pc = "done"
    /\ Kinds(responses) = <<"200-empty-data", "200-empty-embedding", "200">>
    /\ ret = RemoteVector

\* C4: with an empty or whitespace-only text, or with no API key configured,
\* the call sends no request, sleeps for no backoff, never enters the retry
\* loop and returns absent.
C4_NoRequestWithoutInputOrKey ==
    (InRemoteGetEmbedding /\ (op.text \in {<<>>, <<" ">>} \/ ~KeyConfigured))
    =>
        /\ requests = <<>>
        /\ responses = <<>>
        /\ delays = <<>>
        /\ pc \in {"start", "done"}
        /\ pc = "done" => ret = "absent"

C4_Witness ==
    /\ InRemoteGetEmbedding
    /\ pc = "done"
    /\ op.text = Hello
    /\ ~KeyConfigured
    /\ ret = "absent"

\* C5: every call to the remote get_embedding ends in a vector or in absent;
\* no failure of an attempt reaches the caller as a raised error.
C5_VectorOrAbsent ==
    (InRemoteGetEmbedding /\ pc = "done") => ret \in {RemoteVector, "absent"}

\* C6: once the hook is installed, each of the three entry points is served
\* by the remote backend exactly when embedding_provider is "openai"; any
\* other or unset value goes to the local backend with the host's arguments,
\* and the backend's return value comes back as it is.  In remote mode
\* get_embedding hands on text and model override, and get_active_model
\* returns the configured model id or the fallback name.
C6_RoutedByProvider ==
    (_patched /\ op.fn # "none") =>
        /\ called.backend = "remote" <=> config.embedding_provider = "openai"
        /\ called.backend = "local" <=> config.embedding_provider # "openai"
        /\ called.fn = op.fn
        /\ called.text = op.text
        /\ called.model = op.model
        /\ pc = "start" => text = op.text /\ model = op.model
        /\ pc = "done" => ret = called.out
        /\ (op.fn = "get_active_model" /\ called.backend = "remote") =>
              ret = IF config.embedding_model = Unset
                    THEN "text-embedding-3-small"
                    ELSE config.embedding_model

C6_Witness ==
    /\ _patched
    /\ op.fn = "get_embedding"
    /\ op.model = "m2"
    /\ config.embedding_provider = "lmstudio"
    /\ called.backend = "local"
    /\ ret = "vecL"

\* C7: the backend selection is not cached: whatever happened before, a call
\* made through the installed router goes to the remote backend exactly when
\* embedding_provider, as the settings store holds it at that call, is
\* "openai".
C7_NoCachedSelection ==
    [][(_patched /\ pc = "idle" /\ pc' # "idle") =>
          (called'.backend = "remote" <=> config.embedding_provider = "openai")
      ]_vars

C7_Witness ==
    /\ _patched
    /\ prevRoute = "local"
    /\ op.fn = "get_embedding"
    /\ called.provider = "openai"
    /\ called.backend = "remote"

\* C8: install_hook called again after the first call changes nothing: after
\* every call the three entry points are wrapped exactly once and the saved
\* original get_embedding is the local backend's function.
C8_InstallIdempotent ==
    [][installs' = installs + 1 =>
          /\ emb_module' = [get_embedding |-> 1,
                            is_ollama_available |-> 1,
                            get_active_embedding_model |-> 1]
          /\ _original_get_embedding' = LocalFn
          /\ _patched'
          /\ installs >= 1 =>
                UNCHANGED <<config, emb_module, _patched,
                            _original_get_embedding, op, called, ret,
                            prevRoute, clientVars>>
      ]_vars

C8_Witness ==
    /\ installs >= 2
    /\ emb_module.get_embedding = 1
    /\ _original_get_embedding = LocalFn
    /\ op.fn = "get_embedding"
    /\ called.provider = DefaultProvider
    /\ called.backend = "local"

\* C9: the remote is_available answers available on a 200 whatever the
\* dialect, and on a 404 only for a managed-cloud host.
C9_NotFoundOnlyForManagedCloud ==
    (InRemoteIsAvailable /\ pc = "done" /\ Len(responses) = 1) =>
        /\ responses[1].kind = "200" => ret = TRUE
        /\ responses[1].kind = "404" =>
              (ret = TRUE <=> config.openai_base_url = AzureUrl)

\* C10: the remote is_available returns false without any request when no
\* API key is configured; with a key it sends exactly one GET to the models
\* listing, never waits or retries, and returns false when that request
\* raises.
C10_HealthCheckSingleGet ==
    (InRemoteIsAvailable /\ pc = "done") =>
        /\ ~KeyConfigured => requests = <<>> /\ ret = FALSE
        /\ KeyConfigured =>
              /\ Len(requests) = 1
              /\ requests[1].method = "GET"
              /\ requests[1].path = "/models"
              /\ Len(responses) = 1
              /\ responses[1].kind = "RequestException" => ret = FALSE
        /\ delays = <<>>

C10_Witness ==
    /\ InRemoteIsAvailable
    /\ pc = "done"
    /\ KeyConfigured
    /\ Gets = 1
    /\ Kinds(responses) = <<"RequestException">>
    /\ ret = FALSE

\* C11: a text no longer than the budget reaches the request body unchanged;
\* a longer text reaches it as exactly budget characters, the first
\* (budget - marker length) characters of the input followed by the marker;
\* every attempt of the call carries the same text, and truncating the text
\* of the body again changes nothing.
C11_TruncationToBudget ==
    \A i \in 1..Len(requests) :
        LET input == op.text
            body == requests[i].input
            budget == 8000
            keep == budget - Len(Marker)
        IN  /\ Len(input) <= budget => body = input
            /\ Len(input) > budget =>
                  /\ Len(body) = budget
                  /\ SubSeq(body, 1, keep) = SubSeq(input, 1, keep)
                  /\ SubSeq(body, keep + 1, budget) = Marker
            /\ body = requests[1].input
            /\ _truncate_for_embedding(body, budget) = body

C11_Witness ==
    /\ Len(op.text) = 8001
    /\ Len(requests) = 3
    /\ Len(requests[3].input) = 8000
    /\ requests[3].input[8000] = "]"
    /\ requests[3].input[7974] = op.text[7974]
    /\ requests[3].input # op.text

Count(seq, tok) == Cardinality({i \in 1..Len(seq) : seq[i] = tok})
HasToken(seq, tok) == \E i \in 1..Len(seq) : seq[i] = tok
\* the tokens that follow an occurrence of tok in seq
After(seq, tok) ==
    {seq[i + 1] : i \in {j \in 1..(Len(seq) - 1) : seq[j] = tok}}

\* C12: for a configured endpoint that contains /embeddings and a query
\* string with api-version=X, the derived base holds neither, and the URL of
\* the POST holds exactly one /embeddings and exactly one api-version=X.
C12_EmbeddingsAndVersionOnce ==
    LET raw == config.openai_base_url
    IN  (/\ InRemoteGetEmbedding
         /\ HasToken(raw, "/embeddings")
         /\ HasToken(raw, "?")
         /\ HasToken(raw, "api-version=")) =>
            /\ pc # "start" =>
                  /\ ~HasToken(cfg.base_url, "/embeddings")
                  /\ ~HasToken(cfg.base_url, "api-version=")
            /\ \A i \in 1..Len(requests) :
                  /\ Count(requests[i].url, "/embeddings") = 1
                  /\ Count(requests[i].url, "api-version=") = 1
                  /\ After(requests[i].url, "api-version=")
                        = After(raw, "api-version=")

\* C14: for every configured endpoint the derived base has no trailing
\* /embeddings and no api-version parameter, the URL of the POST holds
\* exactly one /embeddings and at most one api-version parameter, and the
\* base, configured in place of the raw endpoint, gives the same URL.
C14_BaseNormalized ==
    InRemoteGetEmbedding =>
        /\ pc # "start" =>
              /\ cfg.base_url # <<>>
              /\ cfg.base_url[Len(cfg.base_url)] # "/embeddings"
              /\ ~HasToken(cfg.base_url, "api-version=")
        /\ \A i \in 1..Len(requests) :
              /\ Count(requests[i].url, "/embeddings") = 1
              /\ Count(requests[i].url, "api-version=") <= 1
              /\ requests[i].url
                    = Endpoint(GetOpenAIConfig(RemoteConfig(cfg.base_url)))

RetryAfterSeconds(h) == IF IsFloat(h) THEN Float(h) ELSE 60

\* C15: the i-th response (attempt index i - 1) being a 429, the call then
\* waits: the delay its Retry-After header asks for when it has one, and
\* else base_delay * 2^(i - 1), i.e. 1 s, 2 s, 4 s; nothing else happens in
\* the call before that wait, so the wait is the i-th one of the call.
C15_RateLimitWait ==
    InRemoteGetEmbedding =>
        \A i \in 1..Len(responses) :
            responses[i].kind = "429" =>
                /\ Len(delays) >= i
                /\ delays[i] =
                      IF responses[i].retry_after = "none"
                      THEN EMBEDDING_RETRY_BASE_DELAY * (2 ^ (i - 1))
                      ELSE RetryAfterSeconds(responses[i].retry_after)

\* C18: no wait follows the third attempt, whatever its outcome: once the
\* third response is in, the call has returned, having waited at most twice.
C18_NoWaitAfterFinalAttempt ==
    (InRemoteGetEmbedding /\ Len(responses) = EMBEDDING_MAX_RETRIES) =>
        /\ pc = "done"
        /\ Len(delays) <= EMBEDDING_MAX_RETRIES - 1

\* what describes the failure an attempt ended in
Describes(out) ==
    CASE out.kind = "429" ->
              IF out.retry_after = "none" \/ IsFloat(out.retry_after)
              THEN {"rate limited", "HTTP 429"}
              ELSE {"rate limited", "HTTP 429", "malformed response"}
      [] out.kind = "500" -> {"HTTP 500"}
      [] out.kind \in EmptyBodies -> {"empty embedding in response"}
      [] OTHER -> ErrorsOf(out.kind)

\* C20: a call that returns absent after its three attempts has a last error
\* that is set and describes the failure of the third attempt, a 429
\* included.
C20_LastErrorOfFinalAttempt ==
    ( /\ InRemoteGetEmbedding
      /\ pc = "done"
      /\ ret = "absent"
      /\ Len(responses) = EMBEDDING_MAX_RETRIES ) =>
        /\ last_error # None
        /\ last_error \in Describes(responses[EMBEDDING_MAX_RETRIES])

\* the steps a call can still take: two for every iteration left (the
\* request, the wait), one more before the first
Rank ==
    CASE pc = "start" -> 2 * EMBEDDING_MAX_RETRIES + 1
      [] pc = "attempt" -> 2 * (EMBEDDING_MAX_RETRIES - attempt)
      [] pc = "sleep" -> 2 * (EMBEDDING_MAX_RETRIES - attempt) - 1
      [] OTHER -> 0

\* C17: every step of a call of the remote get_embedding brings it nearer
\* to its end (so the call ends once every request has returned or timed
\* out and every wait has completed), the state it ends in is Success with
\* the vector or End with absent, and attempts are sequential: a request
\* is sent only when every earlier one has been answered and the wait
\* after it is over.
C17_TerminatesSequentially ==
    [][(InRemoteGetEmbedding /\ pc \in {"start", "attempt", "sleep"}) =>
          /\ Rank' < Rank
          /\ pc' = "done" => ret' \in {RemoteVector, "absent"}
          /\ Len(requests') > Len(requests) =>
                /\ pc = "attempt"
                /\ Len(requests) = attempt
                /\ Len(responses) = attempt
                /\ Len(delays) = attempt
                /\ Len(responses') = attempt + 1]_vars

\* the frames of all threads, the running one included
ConcFrames ==
    [t \in Threads |-> IF t = calls.cur THEN Frame ELSE calls.frames[t]]

\* what a call returns, from its own input, the configuration it read and
\* the responses to its own requests
Result(t, c, resp) ==
    IF IsEmptyInput(t) \/ KeyMissing(c) THEN "absent"
    ELSE IF Len(resp) > 0 /\ resp[Len(resp)].kind = "200" THEN RemoteVector
    ELSE "absent"

PerCall(f) ==
    /\ Len(f.requests) <= EMBEDDING_MAX_RETRIES
    /\ Len(f.responses) = Len(f.requests)
    /\ f.pc = "attempt" => f.attempt = Len(f.requests)
    /\ f.pc = "sleep" => f.attempt + 1 = Len(f.requests)
    /\ \A i \in 1..Len(f.requests) :
          /\ f.requests[i].input = f.op.text
          /\ f.requests[i].url = Endpoint(f.cfg)
          /\ f.requests[i].auth = AuthHeaders(f.cfg.base_url)
          /\ f.requests[i].timeout = Timeout(i - 1)
    /\ f.pc = "done" =>
          /\ f.ret = Result(f.op.text, f.cfg, f.responses)
          /\ f.ret = "absent" =>
                /\ Len(f.responses) = EMBEDDING_MAX_RETRIES
                /\ f.last_error = "HTTP 500"

\* C16: calls of get_embedding run by several threads share no attempt
\* counter, last error or configuration value.  In every interleaving a step
\* of one call, a switch between threads and a rewrite of the settings leave
\* the frame of every other call as it was; a call keeps the configuration
\* it read; each call makes at most 3 requests of its own, built from its own
\* text and configuration; and what it returns is a function of its text,
\* the configuration it read and the responses to its own requests.
C16_CallsShareNothing ==
    [][/\ \A t \in Threads :
             (t # calls.cur \/ calls'.cur # calls.cur) =>
                 ConcFrames'[t] = ConcFrames[t]
       /\ \A t \in Threads :
             /\ PerCall(ConcFrames'[t])
             /\ ConcFrames[t].pc # "start" =>
                   ConcFrames'[t].cfg = ConcFrames[t].cfg]_vars

C16_Witness ==
    /\ calls # <<>>
    /\ ConcFrames[1].pc = "done"
    /\ ConcFrames[2].pc = "done"
    /\ Kinds(ConcFrames[1].responses) = <<"500", "500", "200">>
    /\ ConcFrames[1].ret = RemoteVector
    /\ Kinds(ConcFrames[2].responses) = <<"500", "500", "500">>
    /\ ConcFrames[2].ret = "absent"
    /\ ConcFrames[1].cfg # ConcFrames[2].cfg
    /\ calls.cur = 1

\* C19: however two install_hook calls interleave, the saved original
\* get_embedding is the local backend's function (or not yet saved), never a
\* router wrapper, and a get_embedding call in local mode is served by the
\* local backend and returns, instead of the wrapper calling itself.
C19_RaceKeepsOriginal ==
    /\ _original_get_embedding \in {NoFn, LocalFn}
    /\ (op.fn = "get_embedding" /\ pc = "done") =>
          /\ called.backend = "local"
          /\ ret \in LocalVectors

====
